---- MODULE Spec2Model ----
(***************************************************************************)
(* Model of the Alertmanager -> Gotify relay (src/src/index.ts, class      *)
(* Server): the deduplication cache sentAlerts, the cleanup job scheduled  *)
(* every second, and the handleAlert / processAlerts /                     *)
(* sendGotifyNotification pipeline with its concurrent per-alert tasks.    *)
(*                                                                         *)
(* The runtime is single-threaded: code between two awaits runs            *)
(* atomically, and promise continuations (microtasks) run before any       *)
(* timer or network callback.  One action therefore covers a callback      *)
(* together with the continuations it triggers.                            *)
(***************************************************************************)
EXTENDS Integers, Sequences, FiniteSets, TLC

VARIABLES
    GOTIFY_URL,   \* Server.GOTIFY_URL, read once from the environment
    sentAlerts,   \* Server.sentAlerts: fingerprint -> timestamp (ms)
    now,          \* the clock read by dayjs().valueOf(), in ms
    jobDue,       \* the cleanup job's timer has reached a whole second and not run yet
    cleanupLog,   \* ids logged as removed by the cleanup firings of the latest step
    requests,     \* every handleAlert invocation so far: its body, arrival instant,
                  \* tasks, and the calls made on res and next
    ticks         \* number of fine clock steps taken (bounds the model)

vars == <<GOTIFY_URL, sentAlerts, now, jobDue, cleanupLog, requests, ticks>>

----------------------------------------------------------------------------
(* Program constants *)

DEFAULT_PRIORITY == 5
TTL_MINUTES == 2
\* the cron expression '* * * * * *' fires once per second
SweepInterval == 1000

(* Bounds of the model *)

MaxRequests == 2
MaxBatchLen == 2
MaxTime == 181000
MaxTicks == 2
Quantum == 500

----------------------------------------------------------------------------
(* JavaScript values.  An optional string (a possibly undefined property)  *)
(* is a sequence of length at most one; a labels / annotations object is a *)
(* function whose domain is the set of keys present.                       *)

Undefined == <<>>
Some(s) == <<s>>

\* obj[key], undefined when the key is absent
Get(obj, key) == IF key \in DOMAIN obj THEN Some(obj[key]) ELSE Undefined

\* !x for an optional string: undefined and '' are falsy
Falsy(x) == x = Undefined \/ x = Some("")

\* x || dflt
OrElse(x, dflt) == IF Falsy(x) THEN dflt ELSE x[1]

\* Array.prototype.join: undefined elements contribute the empty string
RECURSIVE Join(_, _)
Join(parts, sep) ==
    IF parts = <<>> THEN ""
    ELSE LET head == IF parts[1] = Undefined THEN "" ELSE parts[1][1]
         IN  IF Len(parts) = 1 THEN head
             ELSE head \o sep \o Join(Tail(parts), sep)

----------------------------------------------------------------------------
(* Pure functions of Server *)

\* a variant that builds the id as a template string would: an absent property
\* contributes the text 'undefined'
generateAlertIdTemplate(alert) ==
    LET Text(x) == IF x = Undefined THEN "undefined" ELSE x[1]
    IN  Text(Get(alert.labels, "alertname")) \o "|" \o
        Text(Get(alert.labels, "instance")) \o "|" \o Text(alert.status)

generateAlertId(alert) ==
    Join(<< Some(OrElse(Get(alert.labels, "alertname"), "")),
            Some(OrElse(Get(alert.labels, "instance"), "")),
            alert.status >>, "|")

\* a variant that takes the title from the status being 'resolved'
GotifyPayloadByResolved(alert) ==
    [ title    |-> IF alert.status = Some("resolved") THEN "U+2705 Resolved"
                   ELSE "U+1F6A8 New alert",
      message  |-> OrElse(Get(alert.labels, "alertname"), "Alert") \o ": " \o
                   OrElse(Get(alert.annotations, "description"),
                          OrElse(Get(alert.annotations, "summary"), "No description")),
      priority |-> IF alert.status = Some("firing") THEN DEFAULT_PRIORITY ELSE 1 ]

\* a variant that prefers the summary to the description
GotifyPayloadSummaryFirst(alert) ==
    [ title    |-> IF alert.status = Some("firing") THEN "U+1F6A8 New alert"
                   ELSE "U+2705 Resolved",
      message  |-> OrElse(Get(alert.labels, "alertname"), "Alert") \o ": " \o
                   OrElse(Get(alert.annotations, "summary"),
                          OrElse(Get(alert.annotations, "description"), "No description")),
      priority |-> IF alert.status = Some("firing") THEN DEFAULT_PRIORITY ELSE 1 ]

\* the {title, message, priority} object built by sendGotifyNotification; the
\* emoji that open the two titles are written by their code points
GotifyPayload(alert) ==
    [ title    |-> IF alert.status = Some("firing") THEN "U+1F6A8 New alert"
                   ELSE "U+2705 Resolved",
      message  |-> OrElse(Get(alert.labels, "alertname"), "Alert") \o ": " \o
                   OrElse(Get(alert.annotations, "description"),
                          OrElse(Get(alert.annotations, "summary"), "No description")),
      priority |-> IF alert.status = Some("firing") THEN DEFAULT_PRIORITY ELSE 1 ]

----------------------------------------------------------------------------
(* Inputs *)

mockAlert ==
    [ status      |-> Some("firing"),
      labels      |-> [alertname |-> "TestAlert", instance |-> "test-instance"],
      annotations |-> [description |-> "Test description"],
      startsAt    |-> Some("2024-01-01T00:00:00.000Z") ]

alert2 ==
    [ status      |-> Some("firing"),
      labels      |-> [alertname |-> "TestAlert", instance |-> "instance-2"],
      annotations |-> [description |-> "Test description"],
      startsAt    |-> Some("2024-01-01T00:00:00.000Z") ]

AlertPool == {mockAlert, alert2}

\* the objects over the given keys: each key absent, or present with the empty
\* string or with its value in vals
Objects(vals) ==
    LET Strings == {vals[k] : k \in DOMAIN vals} \cup {""}
        Filled  == {f \in [DOMAIN vals -> Strings] :
                        \A k \in DOMAIN vals : f[k] \in {"", vals[k]}}
    IN  { [k \in D |-> f[k]] : D \in SUBSET DOMAIN vals, f \in Filled }

\* alerts over every combination of absent, empty and set properties
AlertSpace ==
    [ status      : {Undefined, Some(""), Some("firing"), Some("resolved"),
                     Some("unknown")},
      labels      : Objects([alertname |-> "TestAlert", instance |-> "test-instance"]),
      annotations : Objects([description |-> "Test description",
                             summary |-> "Test summary"]),
      startsAt    : {Undefined, Some("2024-01-01T00:00:00.000Z")} ]

Batches == UNION { [1..n -> AlertPool] : n \in 0..MaxBatchLen }

\* req.body: the alerts property is undefined, a string, or an array of alerts
Bodies ==
    { [type |-> "undefined", alerts |-> <<>>],
      [type |-> "string", alerts |-> <<>>] }
    \cup { [type |-> "array", alerts |-> b] : b \in Batches }

\* process.env.GOTIFY_ALERT_URL: unset, set to the empty string, or set to a URL
GotifyUrls == { Undefined, Some(""), Some("http://gotify.example.com/message") }

ConfigError == "Gotify URL not configured"
DeliveryError == "Request failed"

----------------------------------------------------------------------------
(* The cleanup job *)

\* a variant that takes the minutes for seconds
TTLInSeconds == TTL_MINUTES * 60

\* this.TTL_MINUTES * 60 * 1000
TTL == TTL_MINUTES * 60 * 1000

\* sentAlerts.delete(key)
Remove(map, key) == [k \in DOMAIN map \ {key} |-> map[k]]

\* a variant that overwrites the whole map instead of setting one key
PutAlone(map, key, val) == [k \in {key} |-> val]

\* sentAlerts.set(key, val)
Put(map, key, val) == [k \in DOMAIN map \cup {key} |-> IF k = key THEN val ELSE map[k]]

\* a variant that keeps an entry for one more interval
ExpiredAfterGrace(t, timestamp) == t - timestamp >= TTL + SweepInterval

\* a variant comparing with > instead of >=
ExpiredStrict(t, timestamp) == t - timestamp > TTL

\* the condition of the cleanup loop: now - timestamp >= TTL_MINUTES * 60 * 1000
Expired(t, timestamp) == t - timestamp >= TTL

\* a variant whose iteration ends at the first entry it deletes
RECURSIVE CleanupLoopBreaks(_, _, _, _)
CleanupLoopBreaks(keys, cache, t, logged) ==
    IF keys = {} THEN [cache |-> cache, logged |-> logged]
    ELSE LET id == CHOOSE k \in keys : TRUE
         IN  IF t - cache[id] >= TTL
             THEN [cache |-> Remove(cache, id), logged |-> Append(logged, id)]
             ELSE CleanupLoopBreaks(keys \ {id}, cache, t, logged)

\* for (const [id, timestamp] of this.sentAlerts.entries()) { if (...) { delete; log } }
RECURSIVE CleanupLoop(_, _, _, _)
CleanupLoop(keys, cache, t, logged) ==
    IF keys = {} THEN [cache |-> cache, logged |-> logged]
    ELSE LET id == CHOOSE k \in keys : TRUE
         IN  IF Expired(t, cache[id])
             THEN CleanupLoop(keys \ {id}, Remove(cache, id), t, Append(logged, id))
             ELSE CleanupLoop(keys \ {id}, cache, t, logged)

\* one firing of the scheduled callback at instant t
CleanupAt(cache, t) == CleanupLoop(DOMAIN cache, cache, t, <<>>)

\* n consecutive firings of the callback, one per second, the first at instant t,
\* nothing else happening between them (evaluated by halving the run)
RECURSIVE CleanupSeq(_, _, _, _)
CleanupSeq(cache, logged, t, n) ==
    IF n = 0 THEN [cache |-> cache, logged |-> logged]
    ELSE IF n = 1 THEN CleanupLoop(DOMAIN cache, cache, t, logged)
    ELSE LET h == n \div 2
             a == CleanupSeq(cache, logged, t, h)
         IN  IF DOMAIN a.cache = {} THEN a   \* nothing left to iterate over
             ELSE CleanupSeq(a.cache, a.logged, t + h * SweepInterval, n - h)

\* the callback fired at every whole second in (from, to]
CleanupRun(cache, from, to) ==
    CleanupSeq(cache, <<>>, (from \div SweepInterval + 1) * SweepInterval,
               to \div SweepInterval - from \div SweepInterval)

----------------------------------------------------------------------------
(* The request pipeline *)

NoTime == -1

\* a variant without the membership check
StartTaskNoDedup(alert, cache, url) ==
    LET id == generateAlertId(alert)
    IN  IF Falsy(url)
        THEN [id |-> id, state |-> "failed", posts |-> <<>>,
              error |-> ConfigError, recordedAt |-> NoTime]
        ELSE [id |-> id, state |-> "sending",
              posts |-> <<[url |-> url[1], data |-> GotifyPayload(alert)]>>,
              error |-> "", recordedAt |-> NoTime]

\* a variant without the check of the URL: the request goes to whatever it holds
StartTaskUnconfigured(alert, cache, url) ==
    LET id == generateAlertId(alert)
    IN  IF id \in DOMAIN cache
        THEN [id |-> id, state |-> "skipped", posts |-> <<>>,
              error |-> "", recordedAt |-> NoTime]
        ELSE [id |-> id, state |-> "sending",
              posts |-> <<[url |-> OrElse(url, "undefined"),
                           data |-> GotifyPayload(alert)]>>,
              error |-> "", recordedAt |-> NoTime]

\* the part of one processAlerts task that runs before its first suspension:
\* the membership check, and sendGotifyNotification up to the axios.post call
StartTask(alert, cache, url) ==
    LET id == generateAlertId(alert)
    IN  IF id \in DOMAIN cache
        THEN [id |-> id, state |-> "skipped", posts |-> <<>>,
              error |-> "", recordedAt |-> NoTime]
        ELSE IF Falsy(url)
        THEN [id |-> id, state |-> "failed", posts |-> <<>>,
              error |-> ConfigError, recordedAt |-> NoTime]
        ELSE [id |-> id, state |-> "sending",
              posts |-> <<[url |-> url[1], data |-> GotifyPayload(alert)]>>,
              error |-> "", recordedAt |-> NoTime]

\* the errors of the tasks that threw synchronously at instant t, in task order
RECURSIVE ThrownBy(_, _, _)
ThrownBy(tasks, i, t) ==
    IF i > Len(tasks) THEN <<>>
    ELSE (IF tasks[i].state = "failed"
          THEN <<[task |-> i, message |-> tasks[i].error, at |-> t]>> ELSE <<>>)
         \o ThrownBy(tasks, i + 1, t)

\* every task's promise is fulfilled
AllFulfilled(tasks) ==
    \A i \in DOMAIN tasks : tasks[i].state \in {"skipped", "recorded"}

\* a variant that reports the latest error instead of the first
ResumeLatestError(req) ==
    IF req.res # <<>> \/ req.nextCalls # <<>> THEN req
    ELSE IF req.raised # <<>>
    THEN [req EXCEPT !.nextCalls = <<req.raised[Len(req.raised)]>>]
    ELSE IF \A i \in DOMAIN req.tasks : req.tasks[i].state \in {"skipped", "recorded"}
    THEN [req EXCEPT !.res = <<[status |-> 200, method |-> "send",
                                text |-> "Alerts forwarded to Gotify"]>>]
    ELSE req

\* a variant that answers as soon as one task is fulfilled
ResumeOnFirst(req) ==
    IF req.res # <<>> \/ req.nextCalls # <<>> THEN req
    ELSE IF req.raised # <<>>
    THEN [req EXCEPT !.nextCalls = <<req.raised[1]>>]
    ELSE IF req.tasks = <<>>
            \/ \E i \in DOMAIN req.tasks : req.tasks[i].state \in {"skipped", "recorded"}
    THEN [req EXCEPT !.res = <<[status |-> 200, method |-> "send",
                                text |-> "Alerts forwarded to Gotify"]>>]
    ELSE req

\* a variant that hands every error raised to the error handler
ResumeEveryError(req) ==
    IF req.res # <<>> THEN req
    ELSE IF req.raised # <<>>
    THEN [req EXCEPT !.nextCalls = req.raised]
    ELSE IF \A i \in DOMAIN req.tasks : req.tasks[i].state \in {"skipped", "recorded"}
    THEN [req EXCEPT !.res = <<[status |-> 200, method |-> "send",
                                text |-> "Alerts forwarded to Gotify"]>>]
    ELSE req

\* a variant that answers only when every alert was dispatched and recorded: a
\* batch with a skipped duplicate is left unanswered
ResumeAllRecorded(req) ==
    IF req.res # <<>> \/ req.nextCalls # <<>> THEN req
    ELSE IF req.raised # <<>>
    THEN [req EXCEPT !.nextCalls = <<req.raised[1]>>]
    ELSE IF \A i \in DOMAIN req.tasks : req.tasks[i].state = "recorded"
    THEN [req EXCEPT !.res = <<[status |-> 200, method |-> "send",
                                text |-> "Alerts forwarded to Gotify"]>>]
    ELSE req

\* handleAlert after `await this.processAlerts(...)`: Promise.all rejects with the
\* first rejection and fulfils when every task has; the continuation runs once
Resume(req) ==
    IF req.res # <<>> \/ req.nextCalls # <<>> THEN req
    ELSE IF req.raised # <<>>
    THEN [req EXCEPT !.nextCalls = <<req.raised[1]>>]
    ELSE IF AllFulfilled(req.tasks)
    THEN [req EXCEPT !.res = <<[status |-> 200, method |-> "send",
                                text |-> "Alerts forwarded to Gotify"]>>]
    ELSE req

\* a variant without the Array.isArray check: a body without an array is taken as
\* a batch of no alerts
ReceiveUnchecked(body, cache, url, t) ==
    LET tasks == [i \in DOMAIN body.alerts |-> StartTask(body.alerts[i], cache, url)]
    IN  Resume([body |-> body, at |-> t, tasks |-> tasks,
                raised |-> ThrownBy(tasks, 1, t), nextCalls |-> <<>>, res |-> <<>>])

\* handleAlert from its entry to its first suspension
Receive(body, cache, url, t) ==
    IF body.type # "array"
    THEN [body |-> body, at |-> t, tasks |-> <<>>, raised |-> <<>>, nextCalls |-> <<>>,
          res |-> <<[status |-> 400, method |-> "json",
                     text |-> "Invalid payload: alerts missing or not an array"]>>]
    ELSE LET tasks == [i \in DOMAIN body.alerts |-> StartTask(body.alerts[i], cache, url)]
         IN  Resume([body |-> body, at |-> t, tasks |-> tasks,
                     raised |-> ThrownBy(tasks, 1, t), nextCalls |-> <<>>, res |-> <<>>])

\* a task after `await this.sendGotifyNotification(...)` returned
Recorded(task, t) == [task EXCEPT !.state = "recorded", !.recordedAt = t]

\* a task whose axios.post rejected
Rejected(task) == [task EXCEPT !.state = "failed", !.error = DeliveryError]

----------------------------------------------------------------------------
Init ==
    /\ GOTIFY_URL \in GotifyUrls
    /\ sentAlerts = [k \in {} |-> 0]
    /\ now = 0
    /\ jobDue = FALSE
    /\ cleanupLog = <<>>
    /\ requests = <<>>
    /\ ticks = 0

\* a variant that records a fingerprint when its dispatch is initiated
RECURSIVE PutAll(_, _, _, _)
PutAll(map, tasks, i, t) ==
    IF i > Len(tasks) THEN map
    ELSE PutAll(IF tasks[i].state = "sending" THEN Put(map, tasks[i].id, t) ELSE map,
                tasks, i + 1, t)

HandleAlertRecordsEarly(body) ==
    /\ Len(requests) < MaxRequests
    /\ requests' = Append(requests, Receive(body, sentAlerts, GOTIFY_URL, now))
    /\ sentAlerts' = PutAll(sentAlerts, requests'[Len(requests')].tasks, 1, now)
    /\ UNCHANGED <<GOTIFY_URL, now, jobDue, cleanupLog, ticks>>

\* POST /alert arrives: handleAlert runs to its first suspension
HandleAlert(body) ==
    /\ Len(requests) < MaxRequests
    /\ requests' = Append(requests, Receive(body, sentAlerts, GOTIFY_URL, now))
    /\ UNCHANGED <<GOTIFY_URL, sentAlerts, now, jobDue, cleanupLog, ticks>>

\* the outbound request of task i of request r succeeds: the task resumes after
\* its await and records the fingerprint
PostResolves(r, i) ==
    /\ requests[r].tasks[i].state = "sending"
    /\ sentAlerts' = Put(sentAlerts, requests[r].tasks[i].id, now)
    /\ requests' = [requests EXCEPT ![r] =
            Resume([@ EXCEPT !.tasks[i] = Recorded(@, now)])]
    /\ UNCHANGED <<GOTIFY_URL, now, jobDue, cleanupLog, ticks>>

\* a variant that records the fingerprint although the request failed
PostRejectsRecording(r, i) ==
    /\ requests[r].tasks[i].state = "sending"
    /\ sentAlerts' = Put(sentAlerts, requests[r].tasks[i].id, now)
    /\ requests' = [requests EXCEPT ![r] =
            Resume([@ EXCEPT !.tasks[i] = Rejected(@),
                             !.raised = Append(@, [task |-> i, at |-> now,
                                                   message |-> DeliveryError])])]
    /\ UNCHANGED <<GOTIFY_URL, now, jobDue, cleanupLog, ticks>>

\* a variant that issues the outbound request a second time when the first fails
PostRejectsRetrying(r, i) ==
    /\ requests[r].tasks[i].state = "sending"
    /\ requests' = [requests EXCEPT ![r] =
            IF Len(@.tasks[i].posts) < 2
            THEN [@ EXCEPT !.tasks[i].posts = Append(@, @[1])]
            ELSE Resume([@ EXCEPT !.tasks[i] = Rejected(@),
                                  !.raised = Append(@, [task |-> i, at |-> now,
                                                   message |-> DeliveryError])])]
    /\ UNCHANGED <<GOTIFY_URL, sentAlerts, now, jobDue, cleanupLog, ticks>>

\* a variant in which the failure of one outbound request abandons the other
\* tasks of the batch that are still in flight
PostRejectsAborting(r, i) ==
    /\ requests[r].tasks[i].state = "sending"
    /\ requests' = [requests EXCEPT ![r] =
            Resume([@ EXCEPT !.tasks = [j \in DOMAIN @ |->
                                          IF @[j].state = "sending" THEN Rejected(@[j])
                                          ELSE @[j]],
                             !.raised = Append(@, [task |-> i, at |-> now,
                                                   message |-> DeliveryError])])]
    /\ UNCHANGED <<GOTIFY_URL, sentAlerts, now, jobDue, cleanupLog, ticks>>

\* the outbound request of task i of request r fails: axios.post rejects, the task
\* rejects, and Promise.all rejects unless it already has
PostRejects(r, i) ==
    /\ requests[r].tasks[i].state = "sending"
    /\ requests' = [requests EXCEPT ![r] =
            Resume([@ EXCEPT !.tasks[i] = Rejected(@),
                             !.raised = Append(@, [task |-> i, at |-> now,
                                                   message |-> DeliveryError])])]
    /\ UNCHANGED <<GOTIFY_URL, sentAlerts, now, jobDue, cleanupLog, ticks>>

Min(a, b) == IF a < b THEN a ELSE b

NextSecond(t) == (t \div SweepInterval + 1) * SweepInterval

\* time passes, at most up to the next whole second, where the cleanup job becomes due
Tick ==
    /\ ~jobDue
    /\ ticks < MaxTicks
    /\ now < MaxTime
    /\ now' = Min(now + Quantum, NextSecond(now))
    /\ jobDue' = (now' % SweepInterval = 0)
    /\ ticks' = ticks + 1
    /\ UNCHANGED <<GOTIFY_URL, sentAlerts, cleanupLog, requests>>

\* the callback given to schedule.scheduleJob fires
AlertCleanupJob ==
    /\ jobDue
    /\ LET r == CleanupAt(sentAlerts, now)
       IN  /\ sentAlerts' = r.cache
           /\ cleanupLog' = r.logged
    /\ jobDue' = FALSE
    /\ UNCHANGED <<GOTIFY_URL, now, requests, ticks>>

IdleSpans == {60 * SweepInterval, 119 * SweepInterval}

\* a quiet period: nothing but the cleanup job, firing at each whole second, happens
Idle(d) ==
    /\ ~jobDue
    /\ now + d <= MaxTime
    /\ LET r == CleanupRun(sentAlerts, now, now + d)
       IN  /\ sentAlerts' = r.cache
           /\ cleanupLog' = r.logged
    /\ now' = now + d
    /\ UNCHANGED <<GOTIFY_URL, jobDue, requests, ticks>>

\* the relay during its first moments: every body, the clock in fine steps
Next ==
    \/ \E body \in Bodies : HandleAlert(body)
    \/ \E r \in DOMAIN requests : \E i \in DOMAIN requests[r].tasks : PostResolves(r, i)
    \/ \E r \in DOMAIN requests : \E i \in DOMAIN requests[r].tasks : PostRejects(r, i)
    \/ Tick
    \/ AlertCleanupJob

Spec == Init /\ [][Next]_vars

\* the outbound request that never completes: that of the first alert of the
\* first request
Hung == <<1, 1>>

\* Every outbound request but the one of Hung is answered or fails in the end:
\* weak fairness of the completion of each of the other tasks.
HangSpec ==
    /\ Spec
    /\ \A r \in 1..MaxRequests : \A i \in 1..MaxBatchLen :
          <<r, i>> # Hung =>
              WF_vars( /\ r \in DOMAIN requests
                       /\ i \in DOMAIN requests[r].tasks
                       /\ PostResolves(r, i) \/ PostRejects(r, i) )

\* Every outbound request is answered or fails in the end: weak fairness of the
\* completion of each task.
CompletionSpec ==
    /\ Spec
    /\ \A r \in 1..MaxRequests : \A i \in 1..MaxBatchLen :
          WF_vars( /\ r \in DOMAIN requests
                   /\ i \in DOMAIN requests[r].tasks
                   /\ PostResolves(r, i) \/ PostRejects(r, i) )

\* bodies of at most one alert
WindowBodies == {b \in Bodies : Len(b.alerts) <= 1}

\* the relay over minutes: quiet periods between the events
WindowNext ==
    \/ \E body \in WindowBodies : HandleAlert(body)
    \/ \E r \in DOMAIN requests : \E i \in DOMAIN requests[r].tasks : PostResolves(r, i)
    \/ \E r \in DOMAIN requests : \E i \in DOMAIN requests[r].tasks : PostRejects(r, i)
    \/ Tick
    \/ AlertCleanupJob
    \/ \E d \in IdleSpans : Idle(d)

WindowSpec == Init /\ [][WindowNext]_vars

\* bodies of one alert, over every combination of its properties
PayloadBodies == {[type |-> "array", alerts |-> <<a>>] : a \in AlertSpace}

\* the relay with its URL configured, receiving alerts of every shape
PayloadInit == Init /\ ~Falsy(GOTIFY_URL)

PayloadNext == \E body \in PayloadBodies : HandleAlert(body)

PayloadSpec == PayloadInit /\ [][PayloadNext]_vars

\* alerts whose label values may be empty or contain the separator '|'
SeparatorAlerts ==
    [ status      : {Some("firing"), Some("resolved")},
      labels      : [alertname : {"", "a", "a|b"}, instance : {"", "c", "b|c"}],
      annotations : {[description |-> "Test description"]},
      startsAt    : {Some("2024-01-01T00:00:00.000Z")} ]

SeparatorBodies == {[type |-> "array", alerts |-> <<a>>] : a \in SeparatorAlerts}

\* the relay with its URL configured, receiving such alerts one per request
SeparatorNext ==
    \/ \E body \in SeparatorBodies : HandleAlert(body)
    \/ \E r \in DOMAIN requests : \E i \in DOMAIN requests[r].tasks : PostResolves(r, i)
    \/ \E r \in DOMAIN requests : \E i \in DOMAIN requests[r].tasks : PostRejects(r, i)

SeparatorSpec == PayloadInit /\ [][SeparatorNext]_vars

\* a quiet period can begin: the guard of Idle
CanIdle == ~jobDue /\ \E d \in IdleSpans : now + d <= MaxTime

\* The scheduler fires the job when it is due, and time passes: weak fairness of
\* the job and of the quiet periods.  The latter is WF_vars(\E d \in IdleSpans :
\* Idle(d)) written out, with the guard of Idle for its ENABLED.
FairWindowSpec ==
    /\ WindowSpec
    /\ WF_vars(AlertCleanupJob)
    /\ ([]<>(~CanIdle) \/ []<><<now' >= now + SweepInterval>>_vars)

----------------------------------------------------------------------------
(* Observations used by the properties *)

Tasks == {<<r, i>> \in (1..Len(requests)) \X (1..MaxBatchLen + 1) :
            i \in DOMAIN requests[r].tasks}

TaskOf(ri) == requests[ri[1]].tasks[ri[2]]

\* the step is the arrival of a request
Arrives == Len(requests') = Len(requests) + 1

Arrived == requests'[Len(requests')]

\* the outbound requests issued so far for request r
PostsOf(r) == {i \in DOMAIN requests[r].tasks : requests[r].tasks[i].posts # <<>>}

----------------------------------------------------------------------------
(* Properties of the request pipeline, checked under Spec *)

\* C1: when a request arrives, every alert of it whose fingerprint is in the cache
\* is skipped: no outbound request is issued for it, then or later, and the step
\* leaves the cache as it was (no entry added, no timestamp refreshed).
C1_DuplicateSkipped ==
    [][ /\ Arrives =>
              \A i \in DOMAIN Arrived.tasks :
                  generateAlertId(Arrived.body.alerts[i]) \in DOMAIN sentAlerts =>
                      /\ Arrived.tasks[i].state = "skipped"
                      /\ Arrived.tasks[i].posts = <<>>
                      /\ sentAlerts' = sentAlerts
        /\ \A ri \in Tasks :
              TaskOf(ri).state = "skipped" =>
                  requests'[ri[1]].tasks[ri[2]] = TaskOf(ri)
      ]_vars

\* a duplicate has arrived and was skipped
C1_Witness ==
    \E ri \in Tasks :
        /\ TaskOf(ri).state = "skipped"
        /\ TaskOf(ri).id \in DOMAIN sentAlerts

\* C2 as stated: after a dispatch that failed with a delivery error the alert's
\* fingerprint is in the cache.
C2_FailedDispatchIsCached ==
    \A ri \in Tasks :
        (TaskOf(ri).state = "failed" /\ TaskOf(ri).error = DeliveryError)
            => TaskOf(ri).id \in DOMAIN sentAlerts

\* C2 amended: a fingerprint is recorded when its dispatch succeeds, not when it is
\* initiated or when it fails: the arrival of a request and the failure of an
\* outbound request leave the cache unchanged, a success sets the entry to the
\* current instant, and an alert whose fingerprint is not in the cache when it
\* arrives is dispatched (again) if the URL is configured.
C2_RecordedOnSuccess ==
    [][ /\ Arrives =>
              /\ sentAlerts' = sentAlerts
              /\ \A i \in DOMAIN Arrived.tasks :
                    (Arrived.tasks[i].id \notin DOMAIN sentAlerts /\ ~Falsy(GOTIFY_URL))
                        => Arrived.tasks[i].posts # <<>>
        /\ \A ri \in Tasks :
              LET after == requests'[ri[1]].tasks[ri[2]]
              IN  TaskOf(ri).state = "sending" =>
                    /\ after.state = "failed" => sentAlerts' = sentAlerts
                    /\ after.state = "recorded" =>
                          /\ TaskOf(ri).id \in DOMAIN sentAlerts'
                          /\ sentAlerts'[TaskOf(ri).id] = now
      ]_vars

\* a delivery failed, its fingerprint is not cached, and a later request's alert
\* with the same fingerprint has been dispatched
C2_Witness ==
    \E ri \in Tasks, rj \in Tasks :
        /\ ri[1] < rj[1]
        /\ TaskOf(ri).state = "failed" /\ TaskOf(ri).error = DeliveryError
        /\ TaskOf(rj).id = TaskOf(ri).id
        /\ TaskOf(rj).posts # <<>> /\ TaskOf(rj).state = "sending"
        /\ TaskOf(ri).id \notin DOMAIN sentAlerts

\* C3: every fingerprint in the cache is one for which an outbound request has
\* completed successfully; a fingerprint whose dispatches all failed or are still
\* in flight is not in the cache.
C3_CacheOnlyDelivered ==
    \A f \in DOMAIN sentAlerts :
        \E ri \in Tasks : TaskOf(ri).id = f /\ TaskOf(ri).state = "recorded"

\* the cache holds an entry while another fingerprint has a failed dispatch and a
\* third dispatch is in flight
C3_Witness ==
    /\ DOMAIN sentAlerts # {}
    /\ \E ri \in Tasks :
          TaskOf(ri).state = "failed" /\ TaskOf(ri).id \notin DOMAIN sentAlerts
    /\ \E ri \in Tasks : TaskOf(ri).state = "sending"

\* C8: a body whose alerts is missing or not an array is answered 400 with the
\* error message and nothing else happens: no task, no outbound request, no 200,
\* no call of the error handler, and the cache is unchanged.
C8_InvalidPayload ==
    /\ [](\A r \in DOMAIN requests :
            requests[r].body.type # "array" =>
                /\ requests[r].res =
                      <<[status |-> 400, method |-> "json",
                         text |-> "Invalid payload: alerts missing or not an array"]>>
                /\ requests[r].tasks = <<>>
                /\ PostsOf(r) = {}
                /\ requests[r].nextCalls = <<>>)
    /\ [][(Arrives /\ Arrived.body.type # "array") => sentAlerts' = sentAlerts]_vars

\* an invalid body has been answered 400 while the cache held an entry
C8_Witness ==
    /\ DOMAIN sentAlerts # {}
    /\ \E r \in DOMAIN requests :
          /\ requests[r].body.type \in {"undefined", "string"}
          /\ requests[r].res # <<>> /\ requests[r].res[1].status = 400

\* C9: 200 'Alerts forwarded to Gotify' is sent only when every task of the batch
\* has completed without error (skipped, or dispatched and recorded); once a task
\* has raised an error no 200 is sent and the error handler has been called exactly
\* once, with the first error raised.
C9_BatchOutcome ==
    \A r \in DOMAIN requests :
        LET req == requests[r]
        IN  /\ (\E k \in DOMAIN req.res : req.res[k].status = 200) =>
                    /\ req.res = <<[status |-> 200, method |-> "send",
                                    text |-> "Alerts forwarded to Gotify"]>>
                    /\ \A i \in DOMAIN req.tasks :
                          \/ req.tasks[i].state = "skipped"
                          \/ /\ req.tasks[i].state = "recorded"
                             /\ req.tasks[i].posts # <<>>
                             /\ req.tasks[i].recordedAt # NoTime
            /\ (\E i \in DOMAIN req.tasks : req.tasks[i].state = "failed") =>
                    /\ req.res = <<>>
                    /\ req.raised # <<>>
                    /\ req.nextCalls = <<req.raised[1]>>
            /\ (req.body.type = "array" /\ req.res = <<>> /\ req.nextCalls = <<>>) =>
                    \E i \in DOMAIN req.tasks : req.tasks[i].state = "sending"

\* one batch was answered 200 after two dispatches, another went to the error
\* handler after two of its dispatches failed
C9_Witness ==
    \E r1, r2 \in DOMAIN requests :
        /\ requests[r1].res # <<>> /\ requests[r1].res[1].status = 200
        /\ \A i \in DOMAIN requests[r1].tasks : requests[r1].tasks[i].state = "recorded"
        /\ Len(requests[r1].tasks) = 2
        /\ Len(requests[r2].raised) = 2
        /\ requests[r2].raised[1].task = 2
        /\ requests[r2].nextCalls # <<>>

\* the ids of a request's alerts are pairwise distinct
DistinctIds(req) ==
    \A i, j \in DOMAIN req.tasks : req.tasks[i].id = req.tasks[j].id => i = j

\* C10: a batch of k alerts with pairwise distinct fingerprints, none cached, the
\* URL configured and no delivery failing, issues exactly k outbound requests, one
\* per alert, and once it has completed (200 sent) all k fingerprints are in the
\* cache.
C10_DistinctBatch ==
    \A r \in DOMAIN requests :
        LET req == requests[r]
        IN  ( /\ req.body.type = "array"
              /\ DistinctIds(req)
              /\ ~Falsy(GOTIFY_URL)
              /\ \A i \in DOMAIN req.tasks : req.tasks[i].state \notin {"skipped", "failed"} )
            => /\ PostsOf(r) = DOMAIN req.tasks
               /\ Cardinality(PostsOf(r)) = Len(req.body.alerts)
               /\ req.res # <<>> =>
                     /\ req.res[1].status = 200
                     /\ \A i \in DOMAIN req.tasks : req.tasks[i].id \in DOMAIN sentAlerts

\* a batch of two distinct alerts has completed, the second delivered first
C10_Witness ==
    \E r \in DOMAIN requests :
        /\ Len(requests[r].tasks) = 2
        /\ DistinctIds(requests[r])
        /\ requests[r].res # <<>> /\ requests[r].res[1].status = 200
        /\ requests[r].tasks[2].recordedAt < requests[r].tasks[1].recordedAt
        /\ Cardinality(DOMAIN sentAlerts) = 2

\* C11: while the URL is not configured (unset or empty), every alert that arrives
\* fails with 'Gotify URL not configured' without an outbound request being
\* issued, the cache stays empty, and every batch of at least one alert goes to
\* the error handler, once, with that error, and gets no response.
C11_UnconfiguredFails ==
    Falsy(GOTIFY_URL) =>
        /\ DOMAIN sentAlerts = {}
        /\ \A r \in DOMAIN requests :
              LET req == requests[r]
              IN  /\ \A i \in DOMAIN req.tasks :
                        /\ req.tasks[i].posts = <<>>
                        /\ req.tasks[i].state = "failed"
                        /\ req.tasks[i].error = "Gotify URL not configured"
                  /\ req.tasks # <<>> =>
                        /\ req.res = <<>>
                        /\ req.nextCalls = <<[task |-> 1, at |-> req.at,
                                              message |-> "Gotify URL not configured"]>>

\* the URL is unset, a batch of two alerts has arrived and was handed to the error
\* handler, and time has passed since
C11_Witness ==
    /\ GOTIFY_URL = Undefined
    /\ \E r \in DOMAIN requests :
          /\ Len(requests[r].tasks) = 2
          /\ Len(requests[r].raised) = 2
          /\ requests[r].nextCalls # <<>>
          /\ now > requests[r].at

\* the number of outbound requests issued so far by the tasks i.. of a request
RECURSIVE PostCount(_, _)
PostCount(req, i) ==
    IF i > Len(req.tasks) THEN 0
    ELSE Len(req.tasks[i].posts) + PostCount(req, i + 1)

\* C12: there is no retry: a batch has one task per alert, every task has issued at
\* most one outbound request, whether it is in flight, has succeeded or has
\* failed, and so the outbound requests of a batch are at most as many as its
\* alerts.
C12_NoRetry ==
    \A r \in DOMAIN requests :
        LET req == requests[r]
        IN  /\ Len(req.tasks) = Len(req.body.alerts)
            /\ \A i \in DOMAIN req.tasks :
                  /\ Len(req.tasks[i].posts) <= 1
                  /\ req.tasks[i].state \in {"sending", "recorded"}
                        => Len(req.tasks[i].posts) = 1
                  /\ (req.tasks[i].state = "failed" /\ req.tasks[i].error = "Request failed")
                        => Len(req.tasks[i].posts) = 1
            /\ PostCount(req, 1) <= Len(req.body.alerts)

\* a batch of two alerts of which one delivery failed and the other succeeded has
\* issued two outbound requests
C12_Witness ==
    \E r \in DOMAIN requests :
        /\ Len(requests[r].body.alerts) = 2
        /\ \E i, j \in DOMAIN requests[r].tasks :
              /\ requests[r].tasks[i].state = "failed"
              /\ requests[r].tasks[i].error = "Request failed"
              /\ requests[r].tasks[j].state = "recorded"
        /\ PostCount(requests[r], 1) = 2

\* C13: in a batch of which a dispatch has failed, the response reflects the
\* failure (no response, the error handler called with the first error), and the
\* failure has aborted that alert's task only: a task has failed only through an
\* error of its own, every alert that was not a duplicate has been dispatched when
\* the URL is configured, and a task whose delivery succeeded, before or after the
\* failure, has recorded its fingerprint (the entry is in the cache, no older than
\* the recording, as long as the TTL has not passed since).
C13_FailureIsolated ==
    \A r \in DOMAIN requests :
        LET req == requests[r]
        IN  (\E i \in DOMAIN req.tasks : req.tasks[i].state = "failed") =>
                /\ req.res = <<>>
                /\ req.nextCalls = <<req.raised[1]>>
                /\ \A j \in DOMAIN req.tasks :
                      LET task == req.tasks[j]
                          own == {k \in DOMAIN req.raised : req.raised[k].task = j}
                      IN  /\ Cardinality(own) = IF task.state = "failed" THEN 1 ELSE 0
                          /\ (task.state # "skipped" /\ ~Falsy(GOTIFY_URL))
                                => Len(task.posts) = 1
                          /\ (task.state = "recorded" /\ now - task.recordedAt < 120000)
                                => /\ task.id \in DOMAIN sentAlerts
                                   /\ sentAlerts[task.id] >= task.recordedAt

\* the first delivery of a batch of two failed and the batch was handed to the
\* error handler; the second delivery succeeded later and its fingerprint is cached
C13_Witness ==
    \E r \in DOMAIN requests :
        LET req == requests[r]
        IN  /\ Len(req.tasks) = 2
            /\ req.tasks[1].state = "failed" /\ req.tasks[1].error = "Request failed"
            /\ req.nextCalls # <<>> /\ req.nextCalls[1].task = 1
            /\ req.tasks[2].state = "recorded"
            /\ req.tasks[2].recordedAt > req.raised[1].at
            /\ req.tasks[2].id \in DOMAIN sentAlerts
            /\ sentAlerts[req.tasks[2].id] = req.tasks[2].recordedAt

\* C17: while an outbound request of a batch is pending the batch is not answered
\* 200; and when one outbound request never completes, nothing else is held up
\* by it: every other task that was dispatched, of the same batch or of another,
\* completes in the end, a delivered one recording its fingerprint.
C17_HangStallsOneTask ==
    /\ [](\A r \in DOMAIN requests :
            (\E i \in DOMAIN requests[r].tasks : requests[r].tasks[i].state = "sending")
                => \A k \in DOMAIN requests[r].res : requests[r].res[k].status # 200)
    /\ <>[](\A ri \in Tasks \ {Hung} :
              /\ TaskOf(ri).state # "sending"
              /\ (TaskOf(ri).state = "recorded" /\ now - TaskOf(ri).recordedAt < 120000)
                    => TaskOf(ri).id \in DOMAIN sentAlerts)

\* the first alert's request is pending, the second alert of the batch has been
\* delivered and recorded meanwhile, and the batch is unanswered
C17_Witness ==
    /\ Len(requests) >= 1
    /\ Len(requests[1].tasks) = 2
    /\ requests[1].tasks[1].state = "sending"
    /\ requests[1].tasks[2].state = "recorded"
    /\ requests[1].tasks[2].recordedAt > requests[1].at
    /\ requests[1].tasks[2].id \in DOMAIN sentAlerts
    /\ requests[1].res = <<>> /\ requests[1].nextCalls = <<>>

\* task ri was still in flight after instant t
InFlightAfter(ri, t) ==
    \/ TaskOf(ri).state = "sending"
    \/ TaskOf(ri).state = "recorded" /\ TaskOf(ri).recordedAt > t
    \/ /\ TaskOf(ri).state = "failed"
       /\ \E k \in DOMAIN requests[ri[1]].raised :
             /\ requests[ri[1]].raised[k].task = ri[2]
             /\ requests[ri[1]].raised[k].at > t

\* the processing of the batches of ri and rj overlaps: the later of the two
\* arrived while a task of the earlier was in flight
Overlap(ri, rj) ==
    /\ ri[1] < rj[1]
    /\ \E x \in Tasks : x[1] = ri[1] /\ InFlightAfter(x, requests[rj[1]].at)

\* C18 as stated: as long as no entry can have been evicted (the TTL has not
\* passed since the start), two alerts with the same fingerprint in one batch, or
\* in two batches whose processing overlaps, have not both produced an outbound
\* request.
C18_OnePostPerFingerprint ==
    now < 120000 =>
        \A ri \in Tasks, rj \in Tasks :
            ( /\ ri # rj
              /\ TaskOf(ri).id = TaskOf(rj).id
              /\ ri[1] = rj[1] \/ Overlap(ri, rj) )
            => ~(TaskOf(ri).posts # <<>> /\ TaskOf(rj).posts # <<>>)

\* C19: a handleAlert invocation has at most one outcome, a 400 response, a 200
\* response or a call of the error handler, and has exactly one unless an
\* outbound request of it is still pending: never two responses, never a response
\* and a call of the error handler, never two calls of the error handler however
\* many alerts of the batch failed.
C19_OneOutcome ==
    \A r \in DOMAIN requests :
        LET req == requests[r]
        IN  /\ Len(req.res) + Len(req.nextCalls) <= 1
            /\ \A k \in DOMAIN req.res : req.res[k].status \in {200, 400}
            /\ Len(req.res) + Len(req.nextCalls) = 0 =>
                    \E i \in DOMAIN req.tasks : req.tasks[i].state = "sending"
            /\ Len(req.raised) >= 1 => Len(req.nextCalls) = 1 /\ req.res = <<>>

\* both deliveries of a batch failed and the error handler was called once; an
\* invalid body got its 400 and nothing else
C19_Witness ==
    /\ \E r \in DOMAIN requests :
          /\ Len(requests[r].raised) = 2
          /\ \A k \in 1..2 : requests[r].raised[k].message = "Request failed"
          /\ Len(requests[r].nextCalls) = 1
          /\ requests[r].res = <<>>
    /\ \E r \in DOMAIN requests :
          /\ Len(requests[r].res) = 1 /\ requests[r].res[1].status = 400
          /\ requests[r].nextCalls = <<>>

\* every task of request r has settled, the last of them before instant t
SettledBefore(r, t) ==
    \A i \in DOMAIN requests[r].tasks :
        /\ requests[r].tasks[i].state # "sending"
        /\ ~InFlightAfter(<<r, i>>, t - 1)

\* request r is a batch of which a delivery failed and another succeeded
PartiallyFailed(r) ==
    /\ \E i \in DOMAIN requests[r].tasks :
          requests[r].tasks[i].state = "failed" /\ requests[r].tasks[i].error = "Request failed"
    /\ \E i \in DOMAIN requests[r].tasks : requests[r].tasks[i].state = "recorded"

\* C20 as stated: as long as no entry can have been evicted (the TTL has not
\* passed since the start), once all tasks of a partially failed batch have
\* settled, the fingerprints of its alerts that were delivered are in the cache and
\* the batch has recorded none of the fingerprints of its alerts whose delivery
\* failed; and when the same batch arrives again afterwards, outbound requests are
\* issued for the alerts that failed the first time and for no other.
C20_RetryOnlyFailed ==
    now < 120000 =>
        \A r \in DOMAIN requests :
            (PartiallyFailed(r) /\ SettledBefore(r, now + 1)) =>
                /\ \A i \in DOMAIN requests[r].tasks :
                      LET task == requests[r].tasks[i]
                      IN  /\ task.state = "recorded" => task.id \in DOMAIN sentAlerts
                          /\ task.state = "failed" =>
                                \A j \in DOMAIN requests[r].tasks :
                                    requests[r].tasks[j].state = "recorded"
                                        => requests[r].tasks[j].id # task.id
                /\ \A q \in DOMAIN requests :
                      ( /\ q > r
                        /\ requests[q].body = requests[r].body
                        /\ SettledBefore(r, requests[q].at) )
                      => \A i \in DOMAIN requests[q].tasks :
                            requests[q].tasks[i].posts # <<>>
                                <=> requests[r].tasks[i].state = "failed"

----------------------------------------------------------------------------
(* Properties of the fingerprint and of the payload, checked under PayloadSpec *)

\* the text a property contributes when joined: nothing when absent
Text(x) == IF x = Undefined THEN "" ELSE x[1]

\* C14: the fingerprint of an alert is alertname, instance and status joined by
\* '|', each contributing the empty string when absent or empty; an alert with
\* empty status, labels and annotations has fingerprint '||'; and two alerts with
\* the same labels and status have the same fingerprint whatever their
\* annotations and timestamps.
C14_Fingerprint ==
    \A r \in DOMAIN requests : \A i \in DOMAIN requests[r].tasks :
        LET alert == requests[r].body.alerts[i]
            id    == requests[r].tasks[i].id
        IN  /\ id = Text(Get(alert.labels, "alertname")) \o "|" \o
                     Text(Get(alert.labels, "instance")) \o "|" \o Text(alert.status)
            /\ ( /\ alert.status = Some("")
                  /\ DOMAIN alert.labels = {}
                  /\ DOMAIN alert.annotations = {} ) => id = "||"
            /\ \A q \in DOMAIN requests : \A j \in DOMAIN requests[q].tasks :
                  ( /\ requests[q].body.alerts[j].labels = alert.labels
                    /\ requests[q].body.alerts[j].status = alert.status )
                  => requests[q].tasks[j].id = id

\* an alert with empty status, labels and annotations got the fingerprint '||',
\* and so did a later one without a status and with an empty alertname, a summary
\* and a start time; both were dispatched
C14_Witness ==
    /\ Len(requests) = 2
    /\ requests[1].body.alerts[1].status = Some("")
    /\ DOMAIN requests[1].body.alerts[1].labels = {}
    /\ DOMAIN requests[1].body.alerts[1].annotations = {}
    /\ requests[2].body.alerts[1].status = Undefined
    /\ requests[2].body.alerts[1].labels = [alertname |-> ""]
    /\ requests[2].body.alerts[1].annotations = [summary |-> "Test summary"]
    /\ requests[2].body.alerts[1].startsAt # Undefined
    /\ requests[1].tasks[1].id = "||"
    /\ requests[2].tasks[1].id = "||"
    /\ requests[2].tasks[1].posts # <<>>

\* the alerts dispatched so far with the data of their outbound requests
Dispatched ==
    { [alert |-> requests[ri[1]].body.alerts[ri[2]], data |-> TaskOf(ri).posts[1].data] :
        ri \in {x \in Tasks : TaskOf(x).posts # <<>>} }

\* C15: the title and the priority of an outbound payload follow from the status
\* alone: status 'firing' gives the title 'New alert' (led by the emoji U+1F6A8)
\* and priority 5, any other status (resolved, empty, absent, unknown) gives the
\* title 'Resolved' (led by the emoji U+2705) and priority 1; so the title is
\* 'New alert' exactly when the priority is 5.
C15_TitleAndPriority ==
    \A d \in Dispatched :
        /\ d.alert.status = Some("firing") =>
                d.data.title = "U+1F6A8 New alert" /\ d.data.priority = 5
        /\ d.alert.status # Some("firing") =>
                d.data.title = "U+2705 Resolved" /\ d.data.priority = 1
        /\ d.data.title = "U+1F6A8 New alert" <=> d.data.priority = 5
        /\ \A e \in Dispatched :
              e.alert.status = d.alert.status =>
                  e.data.title = d.data.title /\ e.data.priority = d.data.priority

\* a firing alert went out as 'New alert' with priority 5 and an alert of unknown
\* status as 'Resolved' with priority 1
C15_Witness ==
    /\ \E d \in Dispatched :
          /\ d.alert.status = Some("firing")
          /\ d.data.title = "U+1F6A8 New alert" /\ d.data.priority = 5
    /\ \E d \in Dispatched :
          /\ d.alert.status = Some("unknown")
          /\ d.data.title = "U+2705 Resolved" /\ d.data.priority = 1

\* property key of obj is present and not the empty string
NonEmpty(obj, key) == key \in DOMAIN obj /\ obj[key] # ""

\* C16: the message of an outbound payload is '<name>: <body>': name is
\* labels.alertname, or 'Alert' when that is absent or empty; body is
\* annotations.description when that is present and not empty, else
\* annotations.summary when that is present and not empty, else 'No description'.
C16_Message ==
    \A d \in Dispatched :
        LET name == IF NonEmpty(d.alert.labels, "alertname")
                    THEN d.alert.labels.alertname ELSE "Alert"
            body == IF NonEmpty(d.alert.annotations, "description")
                    THEN d.alert.annotations.description
                    ELSE IF NonEmpty(d.alert.annotations, "summary")
                    THEN d.alert.annotations.summary
                    ELSE "No description"
        IN  d.data.message = name \o ": " \o body

\* an alert with both annotations went out with its description, and one with an
\* empty alertname, an empty description and a summary as 'Alert: Test summary'
C16_Witness ==
    /\ \E d \in Dispatched :
          /\ NonEmpty(d.alert.annotations, "description")
          /\ NonEmpty(d.alert.annotations, "summary")
          /\ d.data.message = "TestAlert: Test description"
    /\ \E d \in Dispatched :
          /\ "alertname" \in DOMAIN d.alert.labels
          /\ d.alert.annotations = [description |-> "", summary |-> "Test summary"]
          /\ d.data.message = "Alert: Test summary"

----------------------------------------------------------------------------
(* Termination of the requests, checked under CompletionSpec *)

\* the outcomes of a request so far: responses and calls of the error handler
Outcomes(req) == Len(req.res) + Len(req.nextCalls)

\* C22: when every outbound request completes in the end, every handleAlert
\* invocation gets its outcome (400, 200 or a call of the error handler) in the
\* end and keeps it, whatever firings of the cleanup job and other batches come
\* in between.
C22_EveryRequestAnswered ==
    <>[](\A r \in DOMAIN requests : Outcomes(requests[r]) = 1)

\* two batches of two alerts were in flight together, the cleanup job has fired
\* since the first arrived, and both have their outcome
C22_Witness ==
    /\ Len(requests) = 2
    /\ \A r \in 1..2 : Len(requests[r].tasks) = 2 /\ Outcomes(requests[r]) = 1
    /\ Overlap(<<1, 1>>, <<2, 1>>)
    /\ \E i \in 1..2 : InFlightAfter(<<2, i>>, requests[2].at)
    /\ now = 1000 /\ ~jobDue
    /\ requests[1].at < 1000

----------------------------------------------------------------------------
(* The fingerprint as a key, checked under SeparatorSpec *)

\* the identity triple of an alert
Triple(alert) ==
    <<Get(alert.labels, "alertname"), Get(alert.labels, "instance"), alert.status>>

\* C21 as stated: two alerts whose (alertname, instance, status) triples differ
\* have different fingerprints, also when a label value contains '|'.
C21_FingerprintIsKey ==
    \A ri \in Tasks, rj \in Tasks :
        Triple(requests[ri[1]].body.alerts[ri[2]]) # Triple(requests[rj[1]].body.alerts[rj[2]])
            => TaskOf(ri).id # TaskOf(rj).id

----------------------------------------------------------------------------
(* Properties of the deduplication window, checked under WindowSpec *)

Ids == {generateAlertId(a) : a \in AlertPool}

\* the instants at which fingerprint f has been recorded
RecordTimes(f) ==
    {TaskOf(ri).recordedAt : ri \in {x \in Tasks : TaskOf(x).id = f /\ TaskOf(x).state = "recorded"}}

\* the latest of them
LastRecorded(f) ==
    IF RecordTimes(f) = {} THEN NoTime
    ELSE CHOOSE t \in RecordTimes(f) : \A u \in RecordTimes(f) : u <= t

\* C4: when an alert was dispatched and (last) recorded at T, an alert with the
\* same fingerprint arriving at T + 1 minute is skipped with no outbound request,
\* and one arriving at T + 3 minutes is dispatched afresh; the success of a
\* dispatch enters the fingerprint in the cache with the instant of the success.
C4_DedupWindow ==
    [][ /\ Arrives =>
              \A i \in DOMAIN Arrived.tasks :
                  LET f == Arrived.tasks[i].id
                      T == LastRecorded(f)
                  IN  T # NoTime =>
                        /\ now = T + 60000 =>
                              /\ Arrived.tasks[i].state = "skipped"
                              /\ Arrived.tasks[i].posts = <<>>
                        /\ now = T + 180000 =>
                              /\ Arrived.tasks[i].state = "sending"
                              /\ Arrived.tasks[i].posts # <<>>
        /\ \A ri \in Tasks :
              (TaskOf(ri).state = "sending" /\ requests'[ri[1]].tasks[ri[2]].state = "recorded")
                  => /\ TaskOf(ri).id \in DOMAIN sentAlerts'
                     /\ sentAlerts'[TaskOf(ri).id] = now
      ]_vars

\* an alert recorded at T, and the same alert arriving at T + 3 minutes, dispatched
\* and recorded anew
C4_Witness ==
    \E ri \in Tasks, rj \in Tasks :
        /\ TaskOf(ri).id = TaskOf(rj).id
        /\ TaskOf(ri).state = "recorded" /\ TaskOf(rj).state = "recorded"
        /\ requests[rj[1]].at = TaskOf(ri).recordedAt + 180000
        /\ TaskOf(rj).posts # <<>>
        /\ sentAlerts[TaskOf(rj).id] = TaskOf(rj).recordedAt
        /\ TaskOf(rj).recordedAt >= requests[rj[1]].at

\* the step contains firings of the cleanup job
Sweeps == (jobDue /\ ~jobDue') \/ now' >= now + SweepInterval

\* the instant of the last firing in the step
SweptAt == IF jobDue THEN now ELSE (now' \div SweepInterval) * SweepInterval

\* the instant of the last firing so far
LastSweep == IF jobDue THEN now - SweepInterval ELSE (now \div SweepInterval) * SweepInterval

\* C5: a sweep at instant s removes exactly the entries with s - timestamp >= 120000
\* and keeps every other entry with its timestamp, logging each removed entry
\* once; an entry recorded at T survives the sweep at T + 119 s and no entry
\* recorded at T is present once a sweep has run at T + 120 s or later.
C5_SweepRemovesExpired ==
    /\ [][ Sweeps =>
              LET kept == {k \in DOMAIN sentAlerts : SweptAt - sentAlerts[k] < 120000}
                  gone == DOMAIN sentAlerts \ kept
              IN  /\ DOMAIN sentAlerts' = kept
                  /\ \A k \in kept : sentAlerts'[k] = sentAlerts[k]
                  /\ Len(cleanupLog') = Cardinality(gone)
                  /\ {cleanupLog'[n] : n \in DOMAIN cleanupLog'} = gone
                  /\ \A k \in DOMAIN sentAlerts :
                        SweptAt = sentAlerts[k] + 119000 => k \in DOMAIN sentAlerts'
        ]_vars
    /\ [](\A k \in DOMAIN sentAlerts : LastSweep < sentAlerts[k] + 120000)

\* a sweep has just removed one entry and kept one recorded 119 s before it
C5_Witness ==
    /\ ~jobDue
    /\ now % SweepInterval = 0
    /\ Len(cleanupLog) = 1
    /\ cleanupLog[1] \notin DOMAIN sentAlerts
    /\ \E k \in DOMAIN sentAlerts : now = sentAlerts[k] + 119000

\* C6 as stated: whenever an alert is skipped as a duplicate, the cached entry of
\* its fingerprint is younger than 120000 ms at the moment of the check.
C6_SkipOnlyWithinTTL ==
    [][ Arrives =>
          \A i \in DOMAIN Arrived.tasks :
              Arrived.tasks[i].state = "skipped"
                  => now - sentAlerts[Arrived.tasks[i].id] < 120000
      ]_vars

\* C6 amended: with the sweep firing at every whole second, whenever an alert is
\* skipped as a duplicate, the cached entry of its fingerprint is younger than
\* 121000 ms (the TTL plus one sweep interval) at the moment of the check.
C6_SkipOnlyWithinGrace ==
    [][ Arrives =>
          \A i \in DOMAIN Arrived.tasks :
              Arrived.tasks[i].state = "skipped"
                  => now - sentAlerts[Arrived.tasks[i].id] < 120000 + 1000
      ]_vars

\* an alert has just been skipped on an entry that had reached the TTL
C6_Witness ==
    \E ri \in Tasks :
        /\ TaskOf(ri).state = "skipped"
        /\ requests[ri[1]].at = now
        /\ TaskOf(ri).id \in DOMAIN sentAlerts
        /\ now - sentAlerts[TaskOf(ri).id] >= 120000

\* the latest instant at which an entry can be recorded and still expire before
\* the model's clock stops
Horizon == MaxTime - 60 * SweepInterval - TTL_MINUTES * 60 * 1000

\* C7: with the job firing at every whole second, the cache never holds an entry
\* whose age is at least 121000 ms (the TTL plus one sweep interval), and every
\* entry is eventually removed unless it is recorded anew (stated for the entries
\* recorded early enough to expire before the model's clock stops: in the end none
\* of them is left).
C7_RemovedWithinInterval ==
    /\ [](\A k \in DOMAIN sentAlerts : now - sentAlerts[k] < 120000 + 1000)
    /\ <>[](\A k \in DOMAIN sentAlerts : sentAlerts[k] > Horizon)

\* an entry half a second short of the TTL plus one interval is in the cache, the
\* job being due
C7_Witness ==
    /\ jobDue
    /\ \E k \in DOMAIN sentAlerts :
          /\ now - sentAlerts[k] >= 120000
          /\ sentAlerts[k] <= Horizon

====
